---- MODULE Spec2Model ----
(***************************************************************************)
(* Food search aggregator of the calorie-tracking application              *)
(* (src/main.py, api_food_search).                                         *)
(*                                                                         *)
(* Encoding of Python values:                                              *)
(*   - a Python str is a sequence of character codes (ASCII);              *)
(*   - a JSON value whose type matters to the code is a tagged record      *)
(*     (Absent: key missing, None: null, Str, Num);                        *)
(*   - nutrient inputs are in hundredths of a unit, round(x, 1) yields     *)
(*     tenths of a unit.                                                   *)
(***************************************************************************)
EXTENDS Integers, Sequences, FiniteSets, TLC

(* ------------------------------------------------------------------ *)
(* Python values                                                       *)
(* ------------------------------------------------------------------ *)
Absent == [t |-> "absent", s |-> <<>>, n |-> 0]
None == [t |-> "none", s |-> <<>>, n |-> 0]
Str(s) == [t |-> "str", s |-> s, n |-> 0]
Num(n) == [t |-> "num", s |-> <<>>, n |-> n]

\* bool(v) for a value that is present
Truthy(v) ==
  CASE v.t = "str" -> v.s # <<>>
    [] v.t = "num" -> v.n # 0
    [] OTHER -> FALSE

\* d.get(key, default): the default only replaces a missing key
Get(v, default) == IF v.t = "absent" THEN default ELSE v

\* x or default
OrElse(v, default) == IF Truthy(v) THEN v ELSE default

(* ------------------------------------------------------------------ *)
(* Python str methods on sequences of character codes                  *)
(* ------------------------------------------------------------------ *)
IsUpper(c) == c >= 65 /\ c <= 90
IsLower(c) == c >= 97 /\ c <= 122
IsCased(c) == IsUpper(c) \/ IsLower(c)
IsSpace(c) == c \in {9, 10, 11, 12, 13, 28, 29, 30, 31, 32}

LowerChar(c) == IF IsUpper(c) THEN c + 32 ELSE c
UpperChar(c) == IF IsLower(c) THEN c - 32 ELSE c

\* str.lower()
Lower(s) == [i \in 1..Len(s) |-> LowerChar(s[i])]

\* str.title(): a cased character is upper-cased when it follows an
\* uncased one (or starts the string) and lower-cased otherwise
Title(s) ==
  [i \in 1..Len(s) |->
     IF i = 1 \/ ~IsCased(s[i-1]) THEN UpperChar(s[i]) ELSE LowerChar(s[i])]

\* str.strip()
Strip(s) ==
  LET idx == {i \in 1..Len(s) : ~IsSpace(s[i])}
  IN  IF idx = {} THEN <<>>
      ELSE LET lo == CHOOSE i \in idx : \A j \in idx : i <= j
               hi == CHOOSE i \in idx : \A j \in idx : i >= j
           IN  SubSeq(s, lo, hi)

\* str.startswith(prefix)
StartsWith(s, prefix) ==
  Len(prefix) <= Len(s) /\ SubSeq(s, 1, Len(prefix)) = prefix

\* sub in s
Contains(sub, s) ==
  \E i \in 0..(Len(s) - Len(sub)) : SubSeq(s, i + 1, i + Len(sub)) = sub

\* round(x, 1): hundredths to tenths, ties to even
Round1(h) ==
  LET q == h \div 10
      r == h % 10
  IN  IF r > 5 \/ (r = 5 /\ q % 2 = 1) THEN q + 1 ELSE q

\* decimal digits of a natural number, as str(n) prints them
RECURSIVE Digits(_)
Digits(n) == IF n < 10 THEN <<48 + n>> ELSE Append(Digits(n \div 10), 48 + (n % 10))

(* ------------------------------------------------------------------ *)
(* String literals of the source                                       *)
(* ------------------------------------------------------------------ *)
\* ''
Empty == <<>>
\* 'Generic'
Generic == <<71,101,110,101,114,105,99>>
\* 'Store Brand'
StoreBrand == <<83,116,111,114,101,32,66,114,97,110,100>>
\* 'Generic foods'
GenericFoods == <<71,101,110,101,114,105,99,32,102,111,111,100,115>>
\* '100g'
Serving100g == <<49,48,48,103>>

(* ------------------------------------------------------------------ *)
(* Built-in common foods (per 100g); nutrients in hundredths           *)
(* ------------------------------------------------------------------ *)
COMMON_FOODS ==
  <<
    \* Chicken Breast / Generic
    [name |-> <<67,104,105,99,107,101,110,32,66,114,101,97,115,116>>,
     brand |-> <<71,101,110,101,114,105,99>>,
     calories |-> 16500, protein |-> 3100, carbs |-> 0, fat |-> 360, fiber |-> 0, sugar |-> 0, sodium |-> 7400],
    \* Chicken Thigh / Generic
    [name |-> <<67,104,105,99,107,101,110,32,84,104,105,103,104>>,
     brand |-> <<71,101,110,101,114,105,99>>,
     calories |-> 20900, protein |-> 2600, carbs |-> 0, fat |-> 1090, fiber |-> 0, sugar |-> 0, sodium |-> 8400],
    \* Ground Beef (80/20) / Generic
    [name |-> <<71,114,111,117,110,100,32,66,101,101,102,32,40,56,48,47,50,48,41>>,
     brand |-> <<71,101,110,101,114,105,99>>,
     calories |-> 25400, protein |-> 1720, carbs |-> 0, fat |-> 2000, fiber |-> 0, sugar |-> 0, sodium |-> 7500],
    \* Ground Beef (90/10) / Generic
    [name |-> <<71,114,111,117,110,100,32,66,101,101,102,32,40,57,48,47,49,48,41>>,
     brand |-> <<71,101,110,101,114,105,99>>,
     calories |-> 17600, protein |-> 2000, carbs |-> 0, fat |-> 1000, fiber |-> 0, sugar |-> 0, sodium |-> 6600],
    \* Ground Turkey / Generic
    [name |-> <<71,114,111,117,110,100,32,84,117,114,107,101,121>>,
     brand |-> <<71,101,110,101,114,105,99>>,
     calories |-> 14900, protein |-> 1950, carbs |-> 0, fat |-> 760, fiber |-> 0, sugar |-> 0, sodium |-> 7600],
    \* Salmon / Generic
    [name |-> <<83,97,108,109,111,110>>,
     brand |-> <<71,101,110,101,114,105,99>>,
     calories |-> 20800, protein |-> 2000, carbs |-> 0, fat |-> 1300, fiber |-> 0, sugar |-> 0, sodium |-> 5900],
    \* Tuna (Canned) / Generic
    [name |-> <<84,117,110,97,32,40,67,97,110,110,101,100,41>>,
     brand |-> <<71,101,110,101,114,105,99>>,
     calories |-> 11600, protein |-> 2550, carbs |-> 0, fat |-> 80, fiber |-> 0, sugar |-> 0, sodium |-> 33800],
    \* Egg (Whole) / Generic
    [name |-> <<69,103,103,32,40,87,104,111,108,101,41>>,
     brand |-> <<71,101,110,101,114,105,99>>,
     calories |-> 15500, protein |-> 1300, carbs |-> 110, fat |-> 1100, fiber |-> 0, sugar |-> 110, sodium |-> 12400],
    \* Tofu / Generic
    [name |-> <<84,111,102,117>>,
     brand |-> <<71,101,110,101,114,105,99>>,
     calories |-> 7600, protein |-> 800, carbs |-> 190, fat |-> 480, fiber |-> 30, sugar |-> 60, sodium |-> 700],
    \* Banana / Generic
    [name |-> <<66,97,110,97,110,97>>,
     brand |-> <<71,101,110,101,114,105,99>>,
     calories |-> 8900, protein |-> 110, carbs |-> 2300, fat |-> 30, fiber |-> 260, sugar |-> 1200, sodium |-> 100],
    \* Apple / Generic
    [name |-> <<65,112,112,108,101>>,
     brand |-> <<71,101,110,101,114,105,99>>,
     calories |-> 5200, protein |-> 30, carbs |-> 1400, fat |-> 20, fiber |-> 240, sugar |-> 1000, sodium |-> 100],
    \* Orange / Generic
    [name |-> <<79,114,97,110,103,101>>,
     brand |-> <<71,101,110,101,114,105,99>>,
     calories |-> 4700, protein |-> 90, carbs |-> 1200, fat |-> 10, fiber |-> 240, sugar |-> 900, sodium |-> 0],
    \* Strawberry / Generic
    [name |-> <<83,116,114,97,119,98,101,114,114,121>>,
     brand |-> <<71,101,110,101,114,105,99>>,
     calories |-> 3200, protein |-> 70, carbs |-> 770, fat |-> 30, fiber |-> 200, sugar |-> 490, sodium |-> 100],
    \* Mango / Generic
    [name |-> <<77,97,110,103,111>>,
     brand |-> <<71,101,110,101,114,105,99>>,
     calories |-> 6000, protein |-> 80, carbs |-> 1500, fat |-> 40, fiber |-> 160, sugar |-> 1400, sodium |-> 100],
    \* Avocado / Generic
    [name |-> <<65,118,111,99,97,100,111>>,
     brand |-> <<71,101,110,101,114,105,99>>,
     calories |-> 16000, protein |-> 200, carbs |-> 900, fat |-> 1500, fiber |-> 700, sugar |-> 70, sodium |-> 700],
    \* Broccoli / Generic
    [name |-> <<66,114,111,99,99,111,108,105>>,
     brand |-> <<71,101,110,101,114,105,99>>,
     calories |-> 3400, protein |-> 280, carbs |-> 700, fat |-> 40, fiber |-> 260, sugar |-> 170, sodium |-> 3300],
    \* Spinach / Generic
    [name |-> <<83,112,105,110,97,99,104>>,
     brand |-> <<71,101,110,101,114,105,99>>,
     calories |-> 2300, protein |-> 290, carbs |-> 360, fat |-> 40, fiber |-> 220, sugar |-> 40, sodium |-> 7900],
    \* Carrot / Generic
    [name |-> <<67,97,114,114,111,116>>,
     brand |-> <<71,101,110,101,114,105,99>>,
     calories |-> 4100, protein |-> 90, carbs |-> 1000, fat |-> 20, fiber |-> 280, sugar |-> 470, sodium |-> 6900],
    \* Sweet Potato / Generic
    [name |-> <<83,119,101,101,116,32,80,111,116,97,116,111>>,
     brand |-> <<71,101,110,101,114,105,99>>,
     calories |-> 8600, protein |-> 160, carbs |-> 2000, fat |-> 10, fiber |-> 300, sugar |-> 420, sodium |-> 5500],
    \* White Rice (Cooked) / Generic
    [name |-> <<87,104,105,116,101,32,82,105,99,101,32,40,67,111,111,107,101,100,41>>,
     brand |-> <<71,101,110,101,114,105,99>>,
     calories |-> 13000, protein |-> 270, carbs |-> 2800, fat |-> 30, fiber |-> 40, sugar |-> 0, sodium |-> 100],
    \* Brown Rice (Cooked) / Generic
    [name |-> <<66,114,111,119,110,32,82,105,99,101,32,40,67,111,111,107,101,100,41>>,
     brand |-> <<71,101,110,101,114,105,99>>,
     calories |-> 11200, protein |-> 260, carbs |-> 2400, fat |-> 90, fiber |-> 180, sugar |-> 40, sodium |-> 100],
    \* Pasta (Cooked) / Generic
    [name |-> <<80,97,115,116,97,32,40,67,111,111,107,101,100,41>>,
     brand |-> <<71,101,110,101,114,105,99>>,
     calories |-> 13100, protein |-> 500, carbs |-> 2500, fat |-> 110, fiber |-> 180, sugar |-> 60, sodium |-> 100],
    \* Bread (Whole Wheat) / Generic
    [name |-> <<66,114,101,97,100,32,40,87,104,111,108,101,32,87,104,101,97,116,41>>,
     brand |-> <<71,101,110,101,114,105,99>>,
     calories |-> 24700, protein |-> 1300, carbs |-> 4100, fat |-> 340, fiber |-> 700, sugar |-> 600, sodium |-> 40000],
    \* Oatmeal (Cooked) / Generic
    [name |-> <<79,97,116,109,101,97,108,32,40,67,111,111,107,101,100,41>>,
     brand |-> <<71,101,110,101,114,105,99>>,
     calories |-> 6800, protein |-> 240, carbs |-> 1200, fat |-> 140, fiber |-> 170, sugar |-> 50, sodium |-> 4900],
    \* Quinoa (Cooked) / Generic
    [name |-> <<81,117,105,110,111,97,32,40,67,111,111,107,101,100,41>>,
     brand |-> <<71,101,110,101,114,105,99>>,
     calories |-> 12000, protein |-> 440, carbs |-> 2100, fat |-> 190, fiber |-> 280, sugar |-> 90, sodium |-> 700],
    \* Milk (Whole) / Generic
    [name |-> <<77,105,108,107,32,40,87,104,111,108,101,41>>,
     brand |-> <<71,101,110,101,114,105,99>>,
     calories |-> 6100, protein |-> 320, carbs |-> 480, fat |-> 330, fiber |-> 0, sugar |-> 500, sodium |-> 4300],
    \* Greek Yogurt / Generic
    [name |-> <<71,114,101,101,107,32,89,111,103,117,114,116>>,
     brand |-> <<71,101,110,101,114,105,99>>,
     calories |-> 5900, protein |-> 1000, carbs |-> 360, fat |-> 70, fiber |-> 0, sugar |-> 320, sodium |-> 3600],
    \* Cheddar Cheese / Generic
    [name |-> <<67,104,101,100,100,97,114,32,67,104,101,101,115,101>>,
     brand |-> <<71,101,110,101,114,105,99>>,
     calories |-> 40300, protein |-> 2300, carbs |-> 130, fat |-> 3300, fiber |-> 0, sugar |-> 50, sodium |-> 62100],
    \* Almonds / Generic
    [name |-> <<65,108,109,111,110,100,115>>,
     brand |-> <<71,101,110,101,114,105,99>>,
     calories |-> 57900, protein |-> 2100, carbs |-> 2200, fat |-> 5000, fiber |-> 1250, sugar |-> 440, sodium |-> 100],
    \* Peanut Butter / Generic
    [name |-> <<80,101,97,110,117,116,32,66,117,116,116,101,114>>,
     brand |-> <<71,101,110,101,114,105,99>>,
     calories |-> 58800, protein |-> 2500, carbs |-> 2000, fat |-> 5000, fiber |-> 600, sugar |-> 900, sodium |-> 45900],
    \* Big Mac / McDonald's
    [name |-> <<66,105,103,32,77,97,99>>,
     brand |-> <<77,99,68,111,110,97,108,100,39,115>>,
     calories |-> 56300, protein |-> 2600, carbs |-> 4500, fat |-> 3300, fiber |-> 350, sugar |-> 900, sodium |-> 104000],
    \* Whopper / Burger King
    [name |-> <<87,104,111,112,112,101,114>>,
     brand |-> <<66,117,114,103,101,114,32,75,105,110,103>>,
     calories |-> 65700, protein |-> 2800, carbs |-> 4900, fat |-> 4000, fiber |-> 200, sugar |-> 1100, sodium |-> 98000],
    \* Chicken McNuggets (6pc) / McDonald's
    [name |-> <<67,104,105,99,107,101,110,32,77,99,78,117,103,103,101,116,115,32,40,54,112,99,41>>,
     brand |-> <<77,99,68,111,110,97,108,100,39,115>>,
     calories |-> 25000, protein |-> 1400, carbs |-> 1500, fat |-> 1500, fiber |-> 100, sugar |-> 0, sodium |-> 51000],
    \* Cheeseburger / Generic Fast Food
    [name |-> <<67,104,101,101,115,101,98,117,114,103,101,114>>,
     brand |-> <<71,101,110,101,114,105,99,32,70,97,115,116,32,70,111,111,100>>,
     calories |-> 30300, protein |-> 1500, carbs |-> 2700, fat |-> 1400, fiber |-> 130, sugar |-> 500, sodium |-> 71400],
    \* Pizza (Cheese) / Generic
    [name |-> <<80,105,122,122,97,32,40,67,104,101,101,115,101,41>>,
     brand |-> <<71,101,110,101,114,105,99>>,
     calories |-> 26600, protein |-> 1100, carbs |-> 3300, fat |-> 1000, fiber |-> 230, sugar |-> 360, sodium |-> 59800]
  >>

(* ------------------------------------------------------------------ *)
(* Candidate food records                                              *)
(* ------------------------------------------------------------------ *)
Nutrients == {"calories", "protein", "carbs", "fat", "fiber", "sugar", "sodium"}

Candidate(name, brand, barcode, image, serving_size, nutr, relevance, source) ==
  [name |-> name, brand |-> brand, barcode |-> barcode, image |-> image,
   serving_size |-> serving_size,
   calories |-> nutr["calories"], protein |-> nutr["protein"],
   carbs |-> nutr["carbs"], fat |-> nutr["fat"], fiber |-> nutr["fiber"],
   sugar |-> nutr["sugar"], sodium |-> nutr["sodium"],
   _relevance |-> relevance, _source |-> source]

(* ------------------------------------------------------------------ *)
(* STEP 1: built-in table                                              *)
(* ------------------------------------------------------------------ *)
\* the prefix and substring scores exchanged
LocalRelevanceSwapped(food, query_lower) ==
  LET name_lower == Lower(food.name)
      base == IF name_lower = query_lower THEN 300
              ELSE IF StartsWith(name_lower, query_lower) THEN 170
              ELSE 250
      short == IF Len(food.name) < 20 THEN 15 ELSE 0
      generic == IF food.brand = Generic THEN 20 ELSE 0
  IN  base + short + generic

LocalRelevance(food, query_lower) ==
  LET name_lower == Lower(food.name)
      base == IF name_lower = query_lower THEN 300
              ELSE IF StartsWith(name_lower, query_lower) THEN 250
              ELSE 170
      short == IF Len(food.name) < 20 THEN 15 ELSE 0
      generic == IF food.brand = Generic THEN 20 ELSE 0
  IN  base + short + generic

LocalCandidate(food, query_lower) ==
  Candidate(food.name, Str(food.brand), Str(Empty), Str(Empty), Str(Serving100g),
            [k \in Nutrients |-> Round1(food[k])],
            LocalRelevance(food, query_lower), "local")

RECURSIVE LocalLoop(_, _, _)
LocalLoop(foods, query_lower, acc) ==
  IF foods = <<>> THEN acc
  ELSE LET food == Head(foods)
       IN  IF Contains(query_lower, Lower(food.name))
           THEN LocalLoop(Tail(foods), query_lower,
                          Append(acc, LocalCandidate(food, query_lower)))
           ELSE LocalLoop(Tail(foods), query_lower, acc)

(* ------------------------------------------------------------------ *)
(* Provider items: what an item of a JSON response does to the loop    *)
(* body -- it raises, it is skipped, or it yields a candidate          *)
(* ------------------------------------------------------------------ *)
\* round(x or 0, 1) raises TypeError on a non-empty string
NutrientRaises(v) == v.t = "str" /\ v.s # <<>>
NutrientValue(v) == IF v.t = "num" THEN Round1(v.n) ELSE 0

\* name = item.get(key, ''); if not name: continue
NameOf(v) == Get(v, Str(Empty))

\* STEP 2: Nutritionix
NxRelevance(name_lower, query_lower) ==
  IF name_lower = query_lower THEN 260
  ELSE IF StartsWith(name_lower, query_lower) THEN 220
  ELSE IF Contains(query_lower, name_lower) THEN 180
  ELSE 0

NxSkips(item) == item.shape = "dict" /\ ~Truthy(NameOf(item.food_name))

NxRaises(item) ==
  \/ item.shape # "dict"
  \/ /\ ~NxSkips(item)
     /\ \/ NameOf(item.food_name).t # "str"
        \/ item.photo.t = "none"
        \/ \E k \in Nutrients : NutrientRaises(item.nutrients[k])

NxCandidate(item, query_lower) ==
  LET name == NameOf(item.food_name).s
      serving_weight == OrElse(Get(item.serving_weight_grams, None), Num(100))
  IN  Candidate(Title(name),
                OrElse(Get(item.brand_name, Str(Generic)), Str(Generic)),
                Get(item.nix_item_id, Str(Empty)),
                Get(item.photo, Str(Empty)),
                Str((IF serving_weight.t = "str" THEN serving_weight.s
                     ELSE Digits(serving_weight.n)) \o <<103>>),
                [k \in Nutrients |-> NutrientValue(item.nutrients[k])],
                NxRelevance(Lower(name), query_lower), "nutritionix")

RECURSIVE NxLoop(_, _, _)
NxLoop(items, query_lower, acc) ==
  IF items = <<>> THEN acc
  ELSE LET item == Head(items)
       IN  IF NxRaises(item) THEN acc
           ELSE IF NxSkips(item) THEN NxLoop(Tail(items), query_lower, acc)
           ELSE NxLoop(Tail(items), query_lower,
                       Append(acc, NxCandidate(item, query_lower)))

\* STEP 3: Edamam
EdamamRelevance(name_lower, query_lower, categoryLabel) ==
  LET base == IF name_lower = query_lower THEN 240
              ELSE IF StartsWith(name_lower, query_lower) THEN 210
              ELSE IF Contains(query_lower, name_lower) THEN 170
              ELSE 0
  IN  base + (IF categoryLabel = Str(GenericFoods) THEN 20 ELSE 0)

EdamamSkips(hint) == hint.shape = "dict" /\ ~Truthy(NameOf(hint.label))

EdamamRaises(hint) ==
  \/ hint.shape # "dict"
  \/ /\ ~EdamamSkips(hint)
     /\ \/ NameOf(hint.label).t # "str"
        \/ \E k \in Nutrients : NutrientRaises(hint.nutrients[k])

EdamamCandidate(hint, query_lower) ==
  LET name == NameOf(hint.label).s
  IN  Candidate(Title(name),
                OrElse(Get(hint.brand, Str(Generic)), Str(Generic)),
                Str(Empty),
                Get(hint.image, Str(Empty)),
                Str(Serving100g),
                [k \in Nutrients |-> NutrientValue(hint.nutrients[k])],
                EdamamRelevance(Lower(name), query_lower, hint.categoryLabel),
                "edamam")

RECURSIVE EdamamLoop(_, _, _)
EdamamLoop(hints, query_lower, acc) ==
  IF hints = <<>> THEN acc
  ELSE LET hint == Head(hints)
       IN  IF EdamamRaises(hint) THEN acc
           ELSE IF EdamamSkips(hint) THEN EdamamLoop(Tail(hints), query_lower, acc)
           ELSE EdamamLoop(Tail(hints), query_lower,
                           Append(acc, EdamamCandidate(hint, query_lower)))

\* STEP 4: Open Food Facts
OffRelevance(name_lower, query_lower) ==
  IF name_lower = query_lower THEN 120
  ELSE IF StartsWith(name_lower, query_lower) THEN 100
  ELSE IF Contains(query_lower, name_lower) THEN 70
  ELSE 0

MaxOffNameLen == 90

OffSkips(product) ==
  /\ product.shape = "dict"
  /\ \/ ~Truthy(NameOf(product.product_name))
     \/ /\ NameOf(product.product_name).t = "str"
        /\ Len(NameOf(product.product_name).s) > MaxOffNameLen

OffRaises(product) ==
  \/ product.shape # "dict"
  \/ /\ ~OffSkips(product)
     /\ \/ NameOf(product.product_name).t # "str"
        \/ \E k \in Nutrients : NutrientRaises(product.nutrients[k])

OffCandidate(product, query_lower) ==
  LET name == NameOf(product.product_name).s
  IN  Candidate(name,
                OrElse(Get(product.brands, Str(StoreBrand)), Str(StoreBrand)),
                Get(product.code, Str(Empty)),
                Get(product.image_small_url, Str(Empty)),
                OrElse(Get(product.serving_size, Str(Serving100g)), Str(Serving100g)),
                [k \in Nutrients |->
                   IF k = "sodium"
                   THEN (IF product.nutrients[k].t = "num"
                         THEN Round1(product.nutrients[k].n * 1000) ELSE 0)
                   ELSE NutrientValue(product.nutrients[k])],
                OffRelevance(Lower(name), query_lower), "off")

RECURSIVE OffLoop(_, _, _)
OffLoop(items, query_lower, acc) ==
  IF items = <<>> THEN acc
  ELSE LET product == Head(items)
       IN  IF OffRaises(product) THEN acc
           ELSE IF OffSkips(product) THEN OffLoop(Tail(items), query_lower, acc)
           ELSE OffLoop(Tail(items), query_lower,
                        Append(acc, OffCandidate(product, query_lower)))

(* ------------------------------------------------------------------ *)
(* Finalize: sort, strip transient fields, deduplicate, truncate       *)
(* ------------------------------------------------------------------ *)
MaxResults == 30
\* the fallback also consulted with exactly 12 candidates
FallbackThresholdInclusive == 12 + 1

FallbackThreshold == 12
EdamamHintLimit == 12

\* key=lambda x: (-x.get('_relevance', 0), len(x.get('name', '')))
Relevance(x) == IF "_relevance" \in DOMAIN x THEN x._relevance ELSE 0

\* the name length left out of the sort key
SortKeyLessRelevanceOnly(a, b) == Relevance(a) > Relevance(b)

\* ascending instead of descending relevance
SortKeyLessAscending(a, b) ==
  \/ Relevance(a) < Relevance(b)
  \/ Relevance(a) = Relevance(b) /\ Len(a.name) < Len(b.name)

SortKeyLess(a, b) ==
  \/ Relevance(a) > Relevance(b)
  \/ Relevance(a) = Relevance(b) /\ Len(a.name) < Len(b.name)

\* list.sort is stable: an element goes after every element whose key is
\* not greater than its own
RECURSIVE InsertSorted(_, _)
InsertSorted(x, s) ==
  IF s = <<>> THEN <<x>>
  ELSE IF SortKeyLess(x, Head(s)) THEN <<x>> \o s
  ELSE <<Head(s)>> \o InsertSorted(x, Tail(s))

RECURSIVE SortInto(_, _)
SortInto(s, acc) ==
  IF s = <<>> THEN acc ELSE SortInto(Tail(s), InsertSorted(Head(s), acc))

\* the sort left out
SortProductsNone(s) == s

SortProducts(s) == SortInto(s, <<>>)

\* p.pop(k, None)
Pop(p, k) == [f \in DOMAIN p \ {k} |-> p[f]]

\* the provenance tag left in
StripTransientKeepSource(p) == Pop(p, "_relevance")

StripTransient(p) == Pop(Pop(p, "_relevance"), "_source")

\* the key compared case-sensitively
DedupKeyCaseSensitive(p) ==
  <<Strip(p.name), Strip(OrElse(p.brand, Str(Empty)).s)>>

\* (p['name'].lower().strip(), (p.get('brand') or '').lower().strip())
DedupKey(p) ==
  <<Strip(Lower(p.name)), Strip(Lower(OrElse(p.brand, Str(Empty)).s))>>

\* .lower() on a brand that is not a str raises AttributeError
DedupRaises(p) == OrElse(p.brand, Str(Empty)).t # "str"

RECURSIVE DedupLoop(_, _, _)
DedupLoop(ps, seen, unique) ==
  IF ps = <<>> THEN unique
  ELSE LET p == StripTransient(Head(ps))
           key == DedupKey(p)
       IN  IF key \notin seen
           THEN DedupLoop(Tail(ps), seen \cup {key}, Append(unique, p))
           ELSE DedupLoop(Tail(ps), seen, unique)

\* no cap
TruncateNothing(s) == s

\* unique_products[1:30]
TruncateDropFirst(s) == SubSeq(s, 2, IF Len(s) < 30 THEN Len(s) ELSE 30)

\* unique_products[:30]
Truncate(s) == SubSeq(s, 1, IF Len(s) < MaxResults THEN Len(s) ELSE MaxResults)

(* ------------------------------------------------------------------ *)
(* Inputs: raw queries, credentials, provider responses                *)
(* ------------------------------------------------------------------ *)
MaxItems == 2

\* the lists of at most n distinct items of S, in every order
RECURSIVE SeqsUpTo(_, _)
SeqsUpTo(S, n) ==
  IF n = 0 THEN {<<>>}
  ELSE LET shorter == SeqsUpTo(S, n - 1)
       IN  shorter \cup
           UNION { {Append(s, x) : x \in S \ {s[i] : i \in 1..Len(s)}} : s \in shorter }

NoNutrients == [k \in Nutrients |-> Absent]

\* raw values of the q parameter
Queries ==
  { <<>>,                                 \* ''
    <<32,97,32>>,                         \* ' a '
    <<32,65,112,112,108,101,32>>,         \* ' Apple '
    <<109,99,110,117,103,103,101,116,115>>, \* 'mcnuggets'
    <<120,121,122,122,121>>,              \* 'xyzzy'
    <<99,104>> }                          \* 'ch'

\* values of an environment variable holding a credential
DemoId == "demo_id"
DemoKey == "demo_key"
CredentialIds == {DemoId, "id"}
CredentialKeys == {DemoKey, "key"}

\* Nutritionix items
NxItem(shape, food_name, brand_name, kcal) ==
  [shape |-> shape, food_name |-> food_name, brand_name |-> brand_name,
   nix_item_id |-> Absent, photo |-> Absent, serving_weight_grams |-> Absent,
   nutrients |-> [NoNutrients EXCEPT !["calories"] = kcal]]

\* {"food_name": "apple", "nf_calories": 52.12}
NxApple == NxItem("dict", Str(<<97,112,112,108,101>>), Absent, Num(5212))
\* {"food_name": "chicken mcnuggets (6pc)", "brand_name": "McDonald's"}
NxMcNuggets ==
  NxItem("dict",
         Str(<<99,104,105,99,107,101,110,32,109,99,110,117,103,103,101,116,115,32,40,54,112,99,41>>),
         Str(<<77,99,68,111,110,97,108,100,39,115>>), Absent)
\* an item that is not a JSON object, e.g. "apple"
NxScalar == NxItem("scalar", Absent, Absent, Absent)
\* {"food_name": "apple<i>", "serving_weight_grams": 28}
NxNumbered(i) ==
  [NxItem("dict", Str(<<97,112,112,108,101>> \o Digits(i)), Absent, Absent)
     EXCEPT !.serving_weight_grams = Num(28)]

NxCatalogue == {NxApple, NxMcNuggets, NxScalar}
NxBulkSizes == {FallbackThreshold - 1, FallbackThreshold, MaxResults + 1}

\* Edamam hints
EdamamHint(shape, label, brand, categoryLabel) ==
  [shape |-> shape, label |-> label, brand |-> brand, image |-> Absent,
   categoryLabel |-> categoryLabel, nutrients |-> NoNutrients]

\* {"food": {"label": "Apple", "categoryLabel": "Generic foods"}}
EdamamApple ==
  EdamamHint("dict", Str(<<65,112,112,108,101>>), Absent, Str(GenericFoods))
\* {"food": {"label": "Chicken McNuggets (6pc)", "brand": "McDonald's",
\*           "categoryLabel": "Generic foods"}}
EdamamMcNuggets ==
  EdamamHint("dict",
             Str(<<67,104,105,99,107,101,110,32,77,99,78,117,103,103,101,116,115,32,40,54,112,99,41>>),
             Str(<<77,99,68,111,110,97,108,100,39,115>>), Str(GenericFoods))
\* {"food": {"label": "apple pie", "brand": 7}}
EdamamBadBrand ==
  EdamamHint("dict", Str(<<97,112,112,108,101,32,112,105,101>>), Num(7), Absent)
\* {"food": {"label": "apple<31>"}}, {"food": {"label": "apple<30>"}}, ...:
\* the names of the last numbered Nutritionix items, counting down
EdamamNumbered(i) ==
  EdamamHint("dict", Str(<<97,112,112,108,101>> \o Digits(MaxResults + 2 - i)),
             Absent, Absent)

EdamamCatalogue == {EdamamApple, EdamamMcNuggets, EdamamBadBrand}
EdamamBulkSizes == {EdamamHintLimit + 1}

\* Open Food Facts products
OffProduct(shape, product_name, brands, sodium) ==
  [shape |-> shape, product_name |-> product_name, brands |-> brands,
   code |-> Absent, image_small_url |-> Absent, serving_size |-> Absent,
   nutrients |-> [NoNutrients EXCEPT !["sodium"] = sodium]]

\* {"product_name": "apple", "brands": "generic"}
OffApple ==
  OffProduct("dict", Str(<<97,112,112,108,101>>),
             Str(<<103,101,110,101,114,105,99>>), Absent)
\* {"product_name": "xyzzy bar", "nutriments": {"sodium_100g": 0.04}}
OffXyzzyBar ==
  OffProduct("dict", Str(<<120,121,122,122,121,32,98,97,114>>), Absent, Num(4))
\* a product whose name has more than 90 characters
OffLongName ==
  OffProduct("dict", Str([i \in 1..(MaxOffNameLen + 1) |-> 97]), Absent, Absent)

OffCatalogue == {OffApple, OffXyzzyBar, OffLongName}

\* What a provider call can produce: the request raises (network error,
\* timeout), the status is not 200, the body is not JSON, or the body
\* is JSON with a list of items
Failures ==
  { [kind |-> k, items |-> <<>>] : k \in {"neterr", "status", "badjson"} }
Ok(items) == [kind |-> "ok", items |-> items]
NoCall == [kind |-> "nocall", items |-> <<>>]

NxResponses ==
  Failures \cup {Ok(s) : s \in SeqsUpTo(NxCatalogue, MaxItems)}
           \cup {Ok([i \in 1..n |-> NxNumbered(i)]) : n \in NxBulkSizes}
EdamamResponses ==
  Failures \cup {Ok(s) : s \in SeqsUpTo(EdamamCatalogue, MaxItems)}
           \cup {Ok([i \in 1..n |-> EdamamNumbered(i)]) : n \in EdamamBulkSizes}
OffResponses ==
  Failures \cup {Ok(s) : s \in SeqsUpTo(OffCatalogue, MaxItems)}

Providers == {"nutritionix", "edamam", "off"}

(* ------------------------------------------------------------------ *)
(* State                                                               *)
(* ------------------------------------------------------------------ *)
VARIABLES
  NUTRITIONIX_APP_ID, NUTRITIONIX_APP_KEY,  \* module-level credentials
  EDAMAM_APP_ID, EDAMAM_APP_KEY,
  pc,               \* position of the request handler
  rawq,             \* the q parameter of the request in progress
  query,            \* the trimmed query
  products,         \* candidates gathered so far (after the sort: sorted, stripped)
  unique_products,  \* deduplicated list
  response,         \* the list returned to the caller
  ranked,           \* history: the sorted candidates with their transient fields
  calls,            \* history: the sources consulted, in order
  received,         \* history: what each provider answered in this invocation
  mode,             \* "fresh", or "replay" when the invocation repeats the previous one
  prev,             \* history: the previous invocation when it is being repeated
  suspended,        \* the locals of the other search request while this one runs
  running,          \* which of the two search requests is running
  users,            \* rows of the users table
  food_logs,        \* rows of the food_logs table
  pending,          \* per client: a registration between its checks and its commit
  reply             \* history: the last request on the tables and its outcome

credentials ==
  <<NUTRITIONIX_APP_ID, NUTRITIONIX_APP_KEY, EDAMAM_APP_ID, EDAMAM_APP_KEY>>
\* the tables and the requests on them
store == <<users, food_logs, pending, reply>>
\* what a step of a search request does not touch
elsewhere == <<credentials, suspended, running, store>>
vars ==
  <<NUTRITIONIX_APP_ID, NUTRITIONIX_APP_KEY, EDAMAM_APP_ID, EDAMAM_APP_KEY,
    pc, rawq, query, products, unique_products, response, ranked, calls,
    received, mode, prev, suspended, running, users, food_logs, pending,
    reply>>

NoPrev ==
  [valid |-> FALSE, rawq |-> <<>>, received |-> [p \in Providers |-> NoCall],
   outcome |-> "idle", response |-> <<>>, ranked |-> <<>>]

\* the locals of a request that has not started
IdleFrame ==
  [pc |-> "idle", rawq |-> <<>>, query |-> <<>>, products |-> <<>>,
   unique_products |-> <<>>, response |-> <<>>, ranked |-> <<>>,
   calls |-> <<>>, received |-> [p \in Providers |-> NoCall],
   mode |-> "fresh", prev |-> NoPrev]

\* browsers sending requests
Clients == {1, 2}

NoRegistration == [stage |-> "none", username |-> "", email |-> ""]

NoReply == [op |-> "none", ok |-> TRUE, user_id |-> 0, log_id |-> 0]

InitSearch ==
  /\ NUTRITIONIX_APP_ID \in CredentialIds
  /\ NUTRITIONIX_APP_KEY \in CredentialKeys
  /\ EDAMAM_APP_ID \in CredentialIds
  /\ EDAMAM_APP_KEY \in CredentialKeys
  /\ pc = "idle"
  /\ rawq = <<>>
  /\ query = <<>>
  /\ products = <<>>
  /\ unique_products = <<>>
  /\ response = <<>>
  /\ ranked = <<>>
  /\ calls = <<>>
  /\ received = [p \in Providers |-> NoCall]
  /\ mode = "fresh"
  /\ prev = NoPrev
  /\ suspended = IdleFrame
  /\ running = 1

\* the state after db.create_all() on a new database
Init ==
  /\ InitSearch
  /\ users = {}
  /\ food_logs = {}
  /\ pending = [c \in Clients |-> NoRegistration]
  /\ reply = NoReply

query_lower == Lower(query)

\* the candidate list of the previous invocation is kept when the request
\* is a repetition
CachedProducts == IF mode' = "replay" THEN products ELSE <<>>

\* products = []
NewProducts == <<>>

\* the length test left out
TooShortEmptyOnly(q) == q = <<>>

\* if not query or len(query) < 2
TooShort(q) == q = <<>> \/ Len(q) < 2

Reverse(s) == [i \in 1..Len(s) |-> s[Len(s) + 1 - i]]

Count(x, s) == Cardinality({i \in 1..Len(s) : s[i] = x})

\* the same elements, each as many times
IsPermutation(s, t) ==
  /\ Len(s) = Len(t)
  /\ \A i \in 1..Len(s) : Count(s[i], s) = Count(s[i], t)

\* a provider's answer with its items in another order
Reorderings(r) == IF r.kind = "ok" THEN {Ok(Reverse(r.items))} ELSE {}

\* the answers a provider may give to the request being served
Offered(provider, responses) ==
  IF mode = "permuted"
  THEN responses \cup Reorderings(prev.received[provider])
  ELSE responses

\* a repeated invocation gets from each provider the answer it got before;
\* a permuted one gets the same items in some order
Answers(provider, r) ==
  /\ mode = "replay" /\ prev.received[provider] # NoCall =>
       r = prev.received[provider]
  /\ mode = "permuted" /\ prev.received[provider] # NoCall =>
       r.kind = prev.received[provider].kind
       /\ IsPermutation(r.items, prev.received[provider].items)

(* ------------------------------------------------------------------ *)
(* The request handler, one action per step                            *)
(* ------------------------------------------------------------------ *)
\* query = request.args.get('q', '').strip(); too short: empty list
Start(q, m) ==
  /\ pc \in {"idle", "done", "error"}
  /\ m # "fresh" => pc # "idle" /\ q = rawq
  /\ mode' = m
  /\ prev' = IF m # "fresh"
             THEN [valid |-> TRUE, rawq |-> rawq, received |-> received,
                   outcome |-> pc, response |-> response, ranked |-> ranked]
             ELSE NoPrev
  /\ rawq' = q
  /\ query' = Strip(q)
  /\ calls' = <<>>
  /\ received' = [p \in Providers |-> NoCall]
  /\ unique_products' = <<>>
  /\ ranked' = <<>>
  /\ response' = <<>>
  /\ IF TooShort(Strip(q))
     THEN /\ pc' = "done"
          /\ products' = <<>>
     ELSE /\ pc' = "local"
          /\ products' = NewProducts
  /\ UNCHANGED elsewhere

\* STEP 1: scan of COMMON_FOODS
LocalScan ==
  /\ pc = "local"
  /\ products' = LocalLoop(COMMON_FOODS, query_lower, products)
  /\ calls' = Append(calls, "local")
  /\ pc' = "nutritionix"
  /\ UNCHANGED <<elsewhere, rawq, query, unique_products, response, ranked,
                 received, mode, prev>>

\* either credential is enough
NutritionixConfiguredEither ==
  NUTRITIONIX_APP_ID # DemoId \/ NUTRITIONIX_APP_KEY # DemoKey

\* if NUTRITIONIX_APP_ID != 'demo_id' and NUTRITIONIX_APP_KEY != 'demo_key'
NutritionixConfigured ==
  NUTRITIONIX_APP_ID # DemoId /\ NUTRITIONIX_APP_KEY # DemoKey

\* if EDAMAM_APP_ID != 'demo_id' and EDAMAM_APP_KEY != 'demo_key'
EdamamConfigured ==
  EDAMAM_APP_ID # DemoId /\ EDAMAM_APP_KEY # DemoKey

\* STEP 2: Nutritionix, when its credentials are set
Nutritionix ==
  /\ pc = "nutritionix"
  /\ pc' = "edamam"
  /\ IF NutritionixConfigured
     THEN \E r \in Offered("nutritionix", NxResponses) :
            /\ Answers("nutritionix", r)
            /\ calls' = Append(calls, "nutritionix")
            /\ received' = [received EXCEPT !["nutritionix"] = r]
            /\ products' = IF r.kind = "ok"
                           THEN NxLoop(r.items, query_lower, products)
                           ELSE products
     ELSE UNCHANGED <<calls, received, products>>
  /\ UNCHANGED <<elsewhere, rawq, query, unique_products, response, ranked,
                 mode, prev>>

\* STEP 3: Edamam, when its credentials are set; at most the first 12 hints
Edamam ==
  /\ pc = "edamam"
  /\ pc' = "off"
  /\ IF EdamamConfigured
     THEN \E r \in Offered("edamam", EdamamResponses) :
            /\ Answers("edamam", r)
            /\ calls' = Append(calls, "edamam")
            /\ received' = [received EXCEPT !["edamam"] = r]
            /\ products' =
                 IF r.kind = "ok"
                 THEN EdamamLoop(SubSeq(r.items, 1,
                                        IF Len(r.items) < EdamamHintLimit
                                        THEN Len(r.items) ELSE EdamamHintLimit),
                                 query_lower, products)
                 ELSE products
     ELSE UNCHANGED <<calls, received, products>>
  /\ UNCHANGED <<elsewhere, rawq, query, unique_products, response, ranked,
                 mode, prev>>

\* STEP 4: Open Food Facts, only when fewer than 12 candidates so far
OpenFoodFacts ==
  /\ pc = "off"
  /\ pc' = "finalize"
  /\ IF Len(products) < FallbackThreshold
     THEN \E r \in Offered("off", OffResponses) :
            /\ Answers("off", r)
            /\ calls' = Append(calls, "off")
            /\ received' = [received EXCEPT !["off"] = r]
            /\ products' = IF r.kind = "ok"
                           THEN OffLoop(r.items, query_lower, products)
                           ELSE products
     ELSE UNCHANGED <<calls, received, products>>
  /\ UNCHANGED <<elsewhere, rawq, query, unique_products, response, ranked,
                 mode, prev>>

\* sort, strip, deduplicate, truncate; a brand that is not a str makes
\* the deduplication raise outside every try block
Finalize ==
  /\ pc = "finalize"
  /\ ranked' = SortProducts(products)
  /\ IF \E i \in 1..Len(products) : DedupRaises(products[i])
     THEN /\ pc' = "error"
          /\ UNCHANGED <<products, unique_products, response>>
     ELSE /\ pc' = "done"
          /\ products' = [i \in 1..Len(products) |-> StripTransient(ranked'[i])]
          /\ unique_products' = DedupLoop(ranked', {}, <<>>)
          /\ response' = Truncate(unique_products')
  /\ UNCHANGED <<elsewhere, rawq, query, calls, received, mode, prev>>

Request == \E q \in Queries : Start(q, "fresh")

\* the caller repeats its previous request
RepeatRequest == \E q \in Queries : Start(q, "replay")

Next ==
  \/ Request
  \/ LocalScan
  \/ Nutritionix
  \/ Edamam
  \/ OpenFoodFacts
  \/ Finalize

Spec == Init /\ [][Next]_vars

\* the same handler when callers may also repeat a request
NextRepeat ==
  \/ Request
  \/ RepeatRequest
  \/ LocalScan
  \/ Nutritionix
  \/ Edamam
  \/ OpenFoodFacts
  \/ Finalize

SpecRepeat == Init /\ [][NextRepeat]_vars

\* the caller repeats its previous request and the providers deliver the
\* items they delivered before in another order
PermutedRequest == \E q \in Queries : Start(q, "permuted")

\* a deployment with the Nutritionix credentials set and no Edamam ones
InitPermuted ==
  /\ Init
  /\ NutritionixConfigured
  /\ EDAMAM_APP_ID = DemoId
  /\ EDAMAM_APP_KEY = DemoKey

NextPermuted ==
  \/ Request
  \/ PermutedRequest
  \/ LocalScan
  \/ Nutritionix
  \/ Edamam
  \/ OpenFoodFacts
  \/ Finalize

SpecPermuted == InitPermuted /\ [][NextPermuted]_vars
(* ------------------------------------------------------------------ *)
(* Vocabulary of the properties                                        *)
(* ------------------------------------------------------------------ *)
Finished == pc \in {"done", "error"}

\* the query of the request in progress, trimmed, as the caller sees it
TrimmedQuery == Strip(rawq)

\* the case-insensitive, trimmed (name, brand) pair of a record
PairOf(p) == <<Strip(Lower(p.name)), Strip(Lower(p.brand.s))>>

\* positions of the sorted candidates that are the first with their pair
RECURSIVE FirstPositions(_, _, _)
FirstPositions(j, seen, acc) ==
  IF j > Len(ranked) THEN acc
  ELSE IF PairOf(ranked[j]) \in seen THEN FirstPositions(j + 1, seen, acc)
  ELSE FirstPositions(j + 1, seen \cup {PairOf(ranked[j])}, Append(acc, j))

KeptPositions == FirstPositions(1, {}, <<>>)

ResponseFields ==
  {"name", "brand", "barcode", "image", "serving_size", "calories",
   "protein", "carbs", "fat", "fiber", "sugar", "sodium"}

WithoutTransient(p) == [f \in ResponseFields |-> p[f]]

(* ------------------------------------------------------------------ *)
(* Properties                                                          *)
(* ------------------------------------------------------------------ *)

\* C1: a query whose trimmed form is empty or shorter than 2 characters
\* gets the empty list, and neither the local table nor any provider is
\* consulted.
C1_ShortQueryReturnsEmpty ==
  (pc # "idle" /\ Len(TrimmedQuery) < 2) =>
     /\ pc = "done"
     /\ response = <<>>
     /\ calls = <<>>
     /\ \A p \in Providers : received[p] = NoCall

C1_Witness ==
  /\ pc = "done"
  /\ rawq # <<>>
  /\ Len(TrimmedQuery) = 1
  /\ response = <<>>
  /\ calls = <<>>

\* C2: along the returned list the relevance score of the entries never
\* increases, and between entries of equal relevance the name length
\* never decreases.  The score of a returned entry is that of the sorted
\* candidate it was kept from.
C2_SortedByRelevanceThenLength ==
  pc = "done" =>
    LET kept == KeptPositions
    IN  /\ Len(response) <= Len(kept)
        /\ \A i \in 1..Len(response) :
             response[i] = WithoutTransient(ranked[kept[i]])
        /\ \A i \in 1..(Len(response) - 1) :
             LET a == ranked[kept[i]]
                 b == ranked[kept[i + 1]]
             IN  /\ a._relevance >= b._relevance
                 /\ a._relevance = b._relevance => Len(a.name) <= Len(b.name)

\* equal relevance with different name lengths, different relevances, and
\* a candidate that the sort moved in front of an earlier one
C2_Witness ==
  /\ pc = "done"
  /\ Len(response) >= 3
  /\ \E i \in 1..(Len(response) - 1) :
       /\ ranked[KeptPositions[i]]._relevance = ranked[KeptPositions[i + 1]]._relevance
       /\ Len(response[i].name) < Len(response[i + 1].name)
  /\ \E i \in 1..(Len(response) - 1) :
       ranked[KeptPositions[i]]._relevance > ranked[KeptPositions[i + 1]]._relevance
  /\ \E i, j \in 1..Len(ranked) :
       i < j /\ ranked[i]._source = "nutritionix" /\ ranked[j]._source = "local"

\* C3: no two returned entries have the same (lowercased, trimmed name;
\* lowercased, trimmed brand) pair, and for every pair among the
\* candidates the entry kept is the first one in the sorted order.
C3_NoDuplicatePairs ==
  pc = "done" =>
    LET kept == KeptPositions
    IN  /\ \A i, j \in 1..Len(response) :
             i # j => PairOf(response[i]) # PairOf(response[j])
        /\ Len(unique_products) = Len(kept)
        /\ \A i \in 1..Len(kept) :
             unique_products[i] = WithoutTransient(ranked[kept[i]])

\* a pair produced twice with different letter case, one occurrence dropped
C3_Witness ==
  /\ pc = "done"
  /\ Len(unique_products) < Len(ranked)
  /\ \E i, j \in 1..Len(ranked) :
       /\ i < j
       /\ PairOf(ranked[i]) = PairOf(ranked[j])
       /\ ranked[i].name # ranked[j].name

\* C4: the returned list has at most 30 entries and is exactly the first
\* 30 (or all, if fewer) entries of the sorted, deduplicated list.
C4_AtMostThirty ==
  pc = "done" =>
    /\ Len(response) <= 30
    /\ Len(response) = (IF Len(unique_products) < 30 THEN Len(unique_products) ELSE 30)
    /\ \A i \in 1..Len(response) : response[i] = unique_products[i]

C4_Witness ==
  /\ pc = "done"
  /\ Len(unique_products) > 30
  /\ Len(response) = 30

\* C5: two invocations with the same query, the same credentials and the
\* same provider answers (failures included) end the same way and return
\* the same list in the same order.
C5_RepeatedSearchSameList ==
  (mode = "replay" /\ Finished) =>
     /\ pc = prev.outcome
     /\ response = prev.response
     /\ received = prev.received

\* a repeated search that consulted the fallback provider and returned
\* several entries
C5_Witness ==
  /\ mode = "replay"
  /\ pc = "done"
  /\ prev.valid
  /\ prev.rawq = rawq
  /\ received["off"].kind = "ok"
  /\ received["nutritionix"].kind = "ok"
  /\ Len(response) >= 3

(* ------------------------------------------------------------------ *)
(* Vocabulary of the properties about sources                          *)
(* ------------------------------------------------------------------ *)
\* local table before natural-language provider before structured
\* provider before fallback provider
Priority(source) ==
  CASE source = "local" -> 4
    [] source = "nutritionix" -> 3
    [] source = "edamam" -> 2
    [] source = "off" -> 1

Contribution(source) ==
  Cardinality({j \in 1..Len(ranked) : ranked[j]._source = source})

\* an item that is not an object, or whose name or brand is not text,
\* or with a nutrient that is not a number
MalformedField(v) == v.t = "num"
MalformedNutrients(n) == \E k \in Nutrients : n[k].t = "str"
Malformed(provider, item) ==
  \/ item.shape # "dict"
  \/ MalformedNutrients(item.nutrients)
  \/ provider = "nutritionix" /\
       (MalformedField(item.food_name) \/ MalformedField(item.brand_name))
  \/ provider = "edamam" /\
       (MalformedField(item.label) \/ MalformedField(item.brand))
  \/ provider = "off" /\
       (MalformedField(item.product_name) \/ MalformedField(item.brands))

SourceFailed(provider) ==
  \/ received[provider].kind \in {"neterr", "status", "badjson"}
  \/ /\ received[provider].kind = "ok"
     /\ \E i \in 1..Len(received[provider].items) :
          Malformed(provider, received[provider].items[i])

SourceSucceeded(provider) ==
  received[provider].kind = "ok" /\ ~SourceFailed(provider)

\* the items of a well-formed answer that describe a candidate
UsableItems(provider) ==
  LET items == received[provider].items
  IN  CASE provider = "nutritionix" ->
             {i \in 1..Len(items) : items[i].food_name.t = "str"
                                      /\ items[i].food_name.s # <<>>}
        [] provider = "edamam" ->
             {i \in 1..Len(items) : i <= 12 /\ items[i].label.t = "str"
                                      /\ items[i].label.s # <<>>}
        [] provider = "off" ->
             {i \in 1..Len(items) : items[i].product_name.t = "str"
                                      /\ items[i].product_name.s # <<>>
                                      /\ Len(items[i].product_name.s) <= 90}

LocalMatches ==
  {i \in 1..Len(COMMON_FOODS) :
     Contains(Lower(TrimmedQuery), Lower(COMMON_FOODS[i].name))}

\* how the name of a candidate matches the query
Quality(c) ==
  LET n == Lower(c.name)
      q == Lower(TrimmedQuery)
  IN  IF n = q THEN "exact"
      ELSE IF StartsWith(n, q) THEN "prefix"
      ELSE IF Contains(q, n) THEN "substring"
      ELSE "none"

Better(a, b) ==
  \/ a._relevance > b._relevance
  \/ a._relevance = b._relevance /\ Len(a.name) < Len(b.name)

EntriesWithPair(pair) ==
  {i \in 1..Len(response) : PairOf(response[i]) = pair}

\* C6: when an external source fails during a search (network error or
\* timeout, non-200 status, non-JSON body, or a malformed item in an
\* otherwise valid answer) that source contributes no candidate, no error
\* reaches the caller, and every candidate of the other sources that ran
\* is still among the candidates of the result.
C6_FailureIsolation ==
  Finished =>
    \A p \in Providers :
      SourceFailed(p) =>
        /\ pc # "error"
        /\ Contribution(p) = 0
        /\ Contribution("local") = Cardinality(LocalMatches)
        /\ \A o \in Providers \ {p} :
             SourceSucceeded(o) =>
               Contribution(o) = Cardinality(UsableItems(o))

\* C7 as stated: when two different sources produce a candidate with the
\* same pair, exactly one entry with that pair is returned and it is the
\* candidate of the higher-priority source.
C7_HigherPrioritySourceSurvives ==
  pc = "done" =>
    \A a, b \in 1..Len(ranked) :
      (/\ PairOf(ranked[a]) = PairOf(ranked[b])
       /\ Priority(ranked[a]._source) > Priority(ranked[b]._source)) =>
         LET entries == EntriesWithPair(PairOf(ranked[a]))
             top == {c \in 1..Len(ranked) :
                       /\ PairOf(ranked[c]) = PairOf(ranked[a])
                       /\ \A d \in 1..Len(ranked) :
                            PairOf(ranked[d]) = PairOf(ranked[a]) =>
                              Priority(ranked[c]._source) >= Priority(ranked[d]._source)}
         IN  /\ Cardinality(entries) = 1
             /\ \A i \in entries :
                  \E c \in top : response[i] = WithoutTransient(ranked[c])

\* C7 amended: when two different sources produce a candidate with the
\* same pair, at most one entry with that pair is returned; it is the
\* candidate with the higher relevance, on equal relevance the one with
\* the shorter name, on equal relevance and length the one of the
\* higher-priority source; the pair is missing from the list only when
\* the 30-entry cap cuts it.
C7_BestRankedCandidateSurvives ==
  pc = "done" =>
    \A a, b \in 1..Len(ranked) :
      (/\ PairOf(ranked[a]) = PairOf(ranked[b])
       /\ Priority(ranked[a]._source) > Priority(ranked[b]._source)) =>
         LET entries == EntriesWithPair(PairOf(ranked[a]))
         IN  /\ Cardinality(entries) <= 1
             /\ entries = {} => Len(response) = 30
             /\ \A i \in entries :
                  \E c \in 1..Len(ranked) :
                    /\ PairOf(ranked[c]) = PairOf(ranked[a])
                    /\ response[i] = WithoutTransient(ranked[c])
                    /\ \A d \in 1..Len(ranked) :
                         PairOf(ranked[d]) = PairOf(ranked[a]) =>
                           /\ ~Better(ranked[d], ranked[c])
                           /\ ~Better(ranked[c], ranked[d]) =>
                                Priority(ranked[c]._source) >= Priority(ranked[d]._source)

\* a candidate of a lower-priority source is the one returned
C7_Witness ==
  /\ pc = "done"
  /\ \E a, b \in 1..Len(ranked) :
       /\ PairOf(ranked[a]) = PairOf(ranked[b])
       /\ Priority(ranked[a]._source) > Priority(ranked[b]._source)
       /\ ranked[b]._relevance > ranked[a]._relevance
       /\ \E i \in 1..Len(response) : response[i] = WithoutTransient(ranked[b])
       /\ \A i \in 1..Len(response) : response[i] # WithoutTransient(ranked[a])

\* C8 as stated: of two candidates of different sources whose names match
\* the query with the same quality, the one of the higher-priority source
\* has the higher relevance, whatever the bonuses.
C8_ScaleEncodesPriority ==
  Finished =>
    \A a, b \in 1..Len(ranked) :
      (/\ Priority(ranked[a]._source) > Priority(ranked[b]._source)
       /\ Quality(ranked[a]) = Quality(ranked[b])
       /\ Quality(ranked[a]) # "none") =>
         ranked[a]._relevance > ranked[b]._relevance

\* C8 amended: at equal match quality every candidate of the local table
\* and of the two credentialed providers scores higher than a candidate of
\* the fallback provider; a local candidate scores higher than a candidate
\* of either credentialed provider when the match is exact or a prefix;
\* and on an exact match the natural-language provider scores at least as
\* high as the structured provider.
C8_ScalePartialPriority ==
  Finished =>
    \A a, b \in 1..Len(ranked) :
      (/\ Priority(ranked[a]._source) > Priority(ranked[b]._source)
       /\ Quality(ranked[a]) = Quality(ranked[b])
       /\ Quality(ranked[a]) # "none") =>
         /\ ranked[b]._source = "off" => ranked[a]._relevance > ranked[b]._relevance
         /\ (ranked[a]._source = "local" /\ Quality(ranked[a]) \in {"exact", "prefix"})
              => ranked[a]._relevance > ranked[b]._relevance
         /\ (ranked[a]._source = "nutritionix" /\ Quality(ranked[a]) = "exact")
              => ranked[a]._relevance >= ranked[b]._relevance

\* a substring-only local candidate below a substring-only provider one
C8_Witness ==
  /\ Finished
  /\ \E a, b \in 1..Len(ranked) :
       /\ ranked[a]._source = "local"
       /\ ranked[b]._source = "nutritionix"
       /\ Quality(ranked[a]) = "substring"
       /\ Quality(ranked[b]) = "substring"
       /\ ranked[a]._relevance < ranked[b]._relevance

\* C9: for a query of at least 2 characters the returned list is empty
\* only if no source that ran produced a candidate.
C9_EmptyOnlyWithoutCandidates ==
  (pc = "done" /\ Len(TrimmedQuery) >= 2 /\ response = <<>>) =>
     /\ ranked = <<>>
     /\ products = <<>>

\* an empty answer although the fallback provider returned products
C9_Witness ==
  /\ pc = "done"
  /\ Len(TrimmedQuery) >= 2
  /\ response = <<>>
  /\ received["off"].kind = "ok"
  /\ received["off"].items # <<>>
  /\ Len(calls) >= 3

\* C10: every returned entry has exactly the twelve fields name, brand,
\* barcode, image, serving_size, calories, protein, carbs, fat, fiber,
\* sugar, sodium, whichever source produced it.
C10_ExactlyTheTwelveFields ==
  pc = "done" =>
    \A i \in 1..Len(response) :
      DOMAIN response[i] =
        {"name", "brand", "barcode", "image", "serving_size", "calories",
         "protein", "carbs", "fat", "fiber", "sugar", "sodium"}

\* entries of all four sources are returned
C10_Witness ==
  /\ pc = "done"
  /\ \A s \in {"local", "nutritionix", "edamam", "off"} :
       \E j \in 1..Len(ranked) :
         /\ ranked[j]._source = s
         /\ \E i \in 1..Len(response) : response[i] = WithoutTransient(ranked[j])

(* ------------------------------------------------------------------ *)
(* Properties of the order of the sources                              *)
(* ------------------------------------------------------------------ *)
Called(source) == \E i \in 1..Len(calls) : calls[i] = source

\* the search went past its sources (it did not return early)
SourcesDone == pc = "finalize" \/ (Finished /\ Called("local"))

\* the candidates gathered, with their provenance
Gathered == IF pc = "finalize" THEN products ELSE ranked

\* candidates of the local table and the two credentialed providers
BeforeFallback ==
  Cardinality({j \in 1..Len(Gathered) : Gathered[j]._source # "off"})

\* local table, natural-language provider, structured provider, fallback
Position(source) ==
  CASE source = "local" -> 1
    [] source = "nutritionix" -> 2
    [] source = "edamam" -> 3
    [] source = "off" -> 4

\* C11: when only the local table produced candidates, every local food
\* whose name starts with the query (prefix or exact match) is returned
\* before every local food whose name only contains it, whatever bonuses
\* either one receives.
C11_LocalPrefixBeforeSubstring ==
  (pc = "done" /\ \A j \in 1..Len(ranked) : ranked[j]._source = "local") =>
     \A i, j \in 1..Len(response) :
       (/\ Quality(response[i]) \in {"exact", "prefix"}
        /\ Quality(response[j]) = "substring") => i < j

\* a prefix match without any bonus and a substring match with both
C11_Witness ==
  /\ pc = "done"
  /\ \A j \in 1..Len(ranked) : ranked[j]._source = "local"
  /\ \E i, j \in 1..Len(ranked) :
       /\ Quality(ranked[i]) = "prefix"
       /\ ranked[i]._relevance = 250
       /\ Quality(ranked[j]) = "substring"
       /\ ranked[j]._relevance = 205
       /\ \E k \in 1..Len(response) : response[k] = WithoutTransient(ranked[i])
       /\ \E k \in 1..Len(response) : response[k] = WithoutTransient(ranked[j])

\* C14: the fallback provider is consulted exactly when fewer than 12
\* candidates have been gathered from the local table and the two
\* credentialed providers once these have finished, failed or been
\* skipped; it is never consulted before that, nor with 12 or more.
C14_FallbackOnlyBelowTwelve ==
  /\ pc \in {"local", "nutritionix", "edamam", "off"} =>
       ~Called("off") /\ received["off"] = NoCall
  /\ SourcesDone =>
       /\ Called("off") <=> BeforeFallback < 12
       /\ Called("off") <=> received["off"] # NoCall

\* 11 candidates with the fallback consulted
C14_Witness ==
  /\ SourcesDone
  /\ BeforeFallback = 11
  /\ Called("off")

\* 12 candidates without the fallback
C14_WitnessSkipped ==
  /\ SourcesDone
  /\ BeforeFallback = 12
  /\ ~Called("off")

\* C15: the sources are consulted one after another in the order local
\* table, natural-language provider, structured provider, fallback; a
\* credentialed provider is skipped when its credentials are not set;
\* every source is consulted at most once, also after a failure; and
\* the sort, the deduplication and the response come only after the last
\* source has returned or failed.
C15_SequentialOnceInOrder ==
  /\ \A i, j \in 1..Len(calls) : i < j => Position(calls[i]) < Position(calls[j])
  /\ pc = "local" => calls = <<>>
  /\ pc = "nutritionix" => calls = <<"local">>
  /\ (pc \in {"edamam", "off"} \/ SourcesDone) =>
       /\ Called("local")
       /\ Called("nutritionix") <=>
            (NUTRITIONIX_APP_ID # "demo_id" /\ NUTRITIONIX_APP_KEY # "demo_key")
  /\ (pc = "off" \/ SourcesDone) =>
       Called("edamam") <=> (EDAMAM_APP_ID # "demo_id" /\ EDAMAM_APP_KEY # "demo_key")
  /\ \A p \in Providers : Called(p) <=> received[p] # NoCall
  /\ ~Finished => ranked = <<>> /\ unique_products = <<>> /\ response = <<>>

\* all four sources consulted, the first provider having failed
C15_Witness ==
  /\ pc = "done"
  /\ calls = <<"local", "nutritionix", "edamam", "off">>
  /\ received["nutritionix"].kind = "neterr"
  /\ response # <<>>

(* ------------------------------------------------------------------ *)
(* Properties of the order of arrival                                  *)
(* ------------------------------------------------------------------ *)

\* the request repeats the previous one, every provider delivered the items
\* it delivered before in some order, and both requests were answered
PermutedPair ==
  /\ mode = "permuted"
  /\ pc = "done"
  /\ prev.outcome = "done"
  /\ IsPermutation(ranked, prev.ranked)

\* positions of a sorted list that are the first with their pair
RECURSIVE FirstPositionsIn(_, _, _, _)
FirstPositionsIn(s, j, seen, acc) ==
  IF j > Len(s) THEN acc
  ELSE IF PairOf(s[j]) \in seen THEN FirstPositionsIn(s, j + 1, seen, acc)
  ELSE FirstPositionsIn(s, j + 1, seen \cup {PairOf(s[j])}, Append(acc, j))

\* the (relevance, name length) keys of the list returned from a sorted list
ReturnedKeys(s) ==
  LET kept == FirstPositionsIn(s, 1, {}, <<>>)
      n    == IF Len(kept) < MaxResults THEN Len(kept) ELSE MaxResults
  IN  [i \in 1..n |-> <<Relevance(s[kept[i]]), Len(s[kept[i]].name)>>]

\* two different candidates with the same relevance and the same name length
HasTie(s) ==
  \E i, j \in 1..Len(s) :
    /\ s[i] # s[j]
    /\ Relevance(s[i]) = Relevance(s[j])
    /\ Len(s[i].name) = Len(s[j].name)

\* C16 as stated: for a fixed multiset of candidates, any permutation of the
\* order in which the sources or the items within a source deliver them
\* yields the same returned list.
C16_ArrivalOrderIrrelevant ==
  PermutedPair => response = prev.response

\* C16 amended: for a fixed multiset of candidates, a permutation of the
\* order of delivery leaves the sequence of (relevance, name length) keys of
\* the returned list unchanged, and leaves the returned list itself
\* unchanged when no two different candidates have both the same relevance
\* and the same name length.
C16_ArrivalOrderUpToTies ==
  PermutedPair =>
    /\ ReturnedKeys(ranked) = ReturnedKeys(prev.ranked)
    /\ ~HasTie(ranked) => response = prev.response

\* a provider delivered its items in another order, the candidates tie and
\* the returned list changed / no tie and the list of several stayed
C16_Witness ==
  /\ PermutedPair
  /\ received # prev.received
  /\ HasTie(ranked)
  /\ response # prev.response

C16_WitnessNoTie ==
  /\ PermutedPair
  /\ received # prev.received
  /\ ~HasTie(ranked)
  /\ Len(response) > 1

(* ------------------------------------------------------------------ *)
(* Accounts: register and profile                                      *)
(* ------------------------------------------------------------------ *)

\* len(username) < 3
MinUsernameLen == 3
\* len(password) < 6
MinPasswordLen == 6

Usernames == {"al", "ann", "bob"}
Emails == {"ann@x", "bob@x"}
PasswordLengths == {MinPasswordLen - 1, MinPasswordLen}
Ages == {0, 30}

\* id of the next inserted row
NextId(rows) ==
  IF rows = {} THEN 1
  ELSE (CHOOSE m \in {r.id : r \in rows} : \A r \in rows : r.id <= m) + 1

AccountReply(op, ok, why, user_id, username, email) ==
  [op |-> op, ok |-> ok, why |-> why, user_id |-> user_id, log_id |-> 0,
   username |-> username, email |-> email]

\* unique=True on username only
UniqueColumnsUsernameOnly(rows) ==
  \A a, b \in rows : a.id # b.id => a.username # b.username

\* unique=True on username and on email
UniqueColumns(rows) ==
  \A a, b \in rows :
    a.id # b.id => a.username # b.username /\ a.email # b.email

\* register, up to the two look-ups
RegisterCheck(c, username, pwlen, email) ==
  /\ pending[c].stage = "none"
  /\ IF Len(username) < MinUsernameLen \/ pwlen < MinPasswordLen
     THEN /\ reply' = AccountReply("register", FALSE, "validation", 0,
                                   username, email)
          /\ UNCHANGED pending
     ELSE IF \/ \E u \in users : u.username = username
             \/ \E u \in users : u.email = email
     THEN /\ reply' = AccountReply("register", FALSE, "taken", 0,
                                   username, email)
          /\ UNCHANGED pending
     ELSE /\ pending' = [pending EXCEPT ![c] =
                 [stage |-> "checked", username |-> username, email |-> email]]
          /\ UNCHANGED reply
  /\ UNCHANGED <<users, food_logs>>

\* register, db.session.add(new_user); db.session.commit()
RegisterCommit(c) ==
  /\ pending[c].stage = "checked"
  /\ LET new_user == [id |-> NextId(users), username |-> pending[c].username,
                      email |-> pending[c].email, age |-> 0]
     IN  IF UniqueColumns(users \cup {new_user})
         THEN /\ users' = users \cup {new_user}
              /\ reply' = AccountReply("register", TRUE, "", new_user.id,
                                       new_user.username, new_user.email)
         ELSE /\ users' = users
              /\ reply' = AccountReply("register", FALSE, "integrity", 0,
                                       new_user.username, new_user.email)
  /\ pending' = [pending EXCEPT ![c] = NoRegistration]
  /\ UNCHANGED food_logs

\* profile, POST by a logged-in user; email "" stands for a form without one
Profile(user, email, age) ==
  /\ user \in users
  /\ LET edited == [user EXCEPT !.email = IF email = "" THEN user.email ELSE email,
                                !.age = age]
         rows   == (users \ {user}) \cup {edited}
     IN  IF UniqueColumns(rows)
         THEN /\ users' = rows
              /\ reply' = AccountReply("profile", TRUE, "", user.id,
                                       "", edited.email)
         ELSE /\ users' = users
              /\ reply' = AccountReply("profile", FALSE, "integrity", user.id,
                                       "", edited.email)
  /\ UNCHANGED <<food_logs, pending>>

\* save_stats, POST by a logged-in user
SaveStats(user, age) ==
  /\ user \in users
  /\ users' = (users \ {user}) \cup {[user EXCEPT !.age = age]}
  /\ reply' = AccountReply("save_stats", TRUE, "", user.id, "", user.email)
  /\ UNCHANGED <<food_logs, pending>>

handler == <<pc, rawq, query, products, unique_products, response, ranked,
             calls, received, mode, prev, suspended, running>>

InitAccounts ==
  /\ Init
  /\ ~NutritionixConfiguredEither
  /\ EDAMAM_APP_ID = DemoId
  /\ EDAMAM_APP_KEY = DemoKey

Register ==
  \E c \in Clients, username \in Usernames, pwlen \in PasswordLengths,
     email \in Emails :
    RegisterCheck(c, username, pwlen, email) /\ UNCHANGED <<credentials, handler>>

RegisterInsert ==
  \E c \in Clients : RegisterCommit(c) /\ UNCHANGED <<credentials, handler>>

ProfileUpdate ==
  \E user \in users, email \in Emails \cup {""}, age \in Ages :
    Profile(user, email, age) /\ UNCHANGED <<credentials, handler>>

StatsUpdate ==
  \E user \in users, age \in Ages :
    SaveStats(user, age) /\ UNCHANGED <<credentials, handler>>

NextAccounts ==
  \/ Register
  \/ RegisterInsert
  \/ ProfileUpdate
  \/ StatsUpdate

SpecAccounts == InitAccounts /\ [][NextAccounts]_vars

\* an account other than the requesting one has the requested username or email
WouldDuplicate(rows, rq) ==
  \E u \in rows :
    /\ u.id # rq.user_id
    /\ u.username = rq.username \/ u.email = rq.email

\* C12: after any sequence and interleaving of register and profile-update
\* operations no two stored accounts share a username and no two share an
\* email address; a registration or profile edit that would create a
\* duplicate leaves the account store unchanged.
C12_UniqueAccounts ==
  [][ /\ \A a, b \in users' :
           a # b => a.id # b.id /\ a.username # b.username /\ a.email # b.email
      /\ ( /\ reply'.op \in {"register", "profile"}
           /\ reply'.why # "validation"
           /\ WouldDuplicate(users, reply') )
         => users' = users /\ ~reply'.ok ]_vars

\* a registration passed its look-ups, another client took the username or
\* the email in between, and the commit was refused
C12_Witness ==
  /\ reply.op = "register"
  /\ reply.why = "integrity"
  /\ Cardinality(users) = 1
  /\ \E u \in users : u.username # reply.username /\ u.email = reply.email

\* a profile edit to the email of another account was refused
C12_WitnessProfile ==
  /\ reply.op = "profile"
  /\ reply.why = "integrity"
  /\ Cardinality(users) = 2

(* ------------------------------------------------------------------ *)
(* Food diary: api_log_food, api_delete_food_log, dashboard, food_diary *)
(* ------------------------------------------------------------------ *)

MaxLogId == 2

\* str(date.today()) and another day
Today == "2026-11-01"
Dates == {Today, "2026-10-31"}

\* the groups dashboard and food_diary show
MealTypes == {"breakfast", "lunch", "dinner", "snack"}

\* "abc"
Abc == <<97, 98, 99>>

\* the JSON body of a log request
LogData(day, meal_type, calories, serving_size) ==
  [date |-> day, meal_type |-> meal_type, calories |-> calories,
   serving_size |-> serving_size]

LogRequests ==
  { LogData(Absent, Absent, Num(100), Absent),
    LogData(Absent, Str("breakfast"), Num(250), Num(2)),
    LogData(Absent, Str("lunch"), Num(100), Absent),
    LogData(Absent, Str("dinner"), Absent, Absent),
    LogData(Absent, Str("snack"), Num(100), Absent),
    LogData(Absent, Str("brunch"), Num(100), Absent),
    LogData(Str("2026-10-31"), Str("breakfast"), Num(100), Absent),
    LogData(Str("yesterday"), Str("lunch"), Num(100), Absent),
    LogData(Absent, Str("lunch"), Str(Abc), Absent),
    LogData(Absent, Str("lunch"), Num(100), None) }

\* datetime.strptime(text, '%Y-%m-%d') raises on a text that is not a date
StrptimeRaises(v) == v.t # "str" \/ v.s \notin Dates

\* float(v) raises on None and on a text that is not a number
FloatRaises(v) ==
  \/ v.t = "none"
  \/ v.t = "str" /\ (v.s = <<>> \/ \E i \in 1..Len(v.s) : v.s[i] \notin 48..57)

DiaryReply(op, ok, user_id, log_id) ==
  [op |-> op, ok |-> ok, why |-> "", user_id |-> user_id, log_id |-> log_id,
   username |-> "", email |-> ""]

\* api_log_food by a logged-in user
LogFood(user, data) ==
  /\ user \in users
  /\ NextId(food_logs) <= MaxLogId
  /\ LET day          == Get(data.date, Str(Today))
         calories     == Get(data.calories, Num(0))
         serving_size == Get(data.serving_size, Num(1))
     IN  IF StrptimeRaises(day) \/ FloatRaises(calories) \/ FloatRaises(serving_size)
         THEN /\ reply' = DiaryReply("log", FALSE, user.id, 0)
              /\ UNCHANGED food_logs
         ELSE LET food_log ==
                    [id |-> NextId(food_logs), user_id |-> user.id,
                     date |-> day.s,
                     meal_type |-> Get(data.meal_type, Str("snack")).s,
                     calories |-> calories.n,
                     serving_size |-> serving_size.n]
              IN  /\ food_logs' = food_logs \cup {food_log}
                  /\ reply' = DiaryReply("log", TRUE, user.id, food_log.id)
  /\ UNCHANGED <<users, pending>>

\* FoodLog.query.filter_by(id=log_id)
LogByIdOnly(user, log_id) == {l \in food_logs : l.id = log_id}

\* FoodLog.query.filter_by(id=log_id, user_id=user.id)
LogOfUser(user, log_id) ==
  {l \in food_logs : l.id = log_id /\ l.user_id = user.id}

\* api_delete_food_log by a logged-in user
DeleteFoodLog(user, log_id) ==
  /\ user \in users
  /\ IF LogOfUser(user, log_id) # {}
     THEN /\ food_logs' = food_logs \ LogOfUser(user, log_id)
          /\ reply' = DiaryReply("delete", TRUE, user.id, log_id)
     ELSE /\ reply' = DiaryReply("delete", FALSE, user.id, log_id)
          /\ UNCHANGED food_logs
  /\ UNCHANGED <<users, pending>>

\* FoodLog.query.filter_by(user_id=user.id, date=...)
DayLogs(user_id, day) ==
  {l \in food_logs : l.user_id = user_id /\ l.date = day}

\* sum(log.calories * log.serving_size for log in logs)
RECURSIVE SumCalories(_)
SumCalories(logs) ==
  IF logs = {} THEN 0
  ELSE LET l == CHOOSE x \in logs : TRUE
       IN  l.calories * l.serving_size + SumCalories(logs \ {l})

\* totals['calories'] of dashboard (day = today) and food_diary
Totals(user_id, day) == SumCalories(DayLogs(user_id, day))

\* meals of dashboard and food_diary
Meals(user_id, day) ==
  [m \in MealTypes |-> {l \in DayLogs(user_id, day) : l.meal_type = m}]

Ann == [id |-> 1, username |-> "ann", email |-> "ann@x", age |-> 0]
Bob == [id |-> 2, username |-> "bob", email |-> "bob@x", age |-> 30]

\* two registered accounts and an empty diary
InitDiary ==
  /\ InitSearch
  /\ ~NutritionixConfiguredEither
  /\ EDAMAM_APP_ID = DemoId
  /\ EDAMAM_APP_KEY = DemoKey
  /\ users = {Ann, Bob}
  /\ food_logs = {}
  /\ pending = [c \in Clients |-> NoRegistration]
  /\ reply = NoReply

LogRequest ==
  \E user \in users, data \in LogRequests :
    LogFood(user, data) /\ UNCHANGED <<credentials, handler>>

DeleteRequest ==
  \E user \in users, log_id \in 1..(MaxLogId + 1) :
    DeleteFoodLog(user, log_id) /\ UNCHANGED <<credentials, handler>>

NextDiary ==
  \/ LogRequest
  \/ DeleteRequest

SpecDiary == InitDiary /\ [][NextDiary]_vars

\* C13: every persisted food entry has a meal category that is one of
\* breakfast, lunch, dinner or snack, so every entry of a user's day is in
\* exactly one of the four meal groups of dashboard and food_diary and the
\* groups together account for the day's totals.
C13_MealCategoryEnumerated ==
  /\ \A l \in food_logs : l.meal_type \in MealTypes
  /\ \A u \in users, day \in Dates :
       /\ \A l \in DayLogs(u.id, day) :
            Cardinality({m \in MealTypes : l \in Meals(u.id, day)[m]}) = 1
       /\ Totals(u.id, day) =
            SumCalories(UNION {Meals(u.id, day)[m] : m \in MealTypes})

\* the entries of the users other than the one who sent the request
OthersLogs(logs, user_id) == {l \in logs : l.user_id # user_id}

\* C18: api_delete_food_log removes an entry only when it exists and is
\* owned by the logged-in user, and otherwise reports failure and leaves
\* every stored entry unchanged; no operation changes the fields of an
\* existing entry; logging or deleting by one user never changes the
\* entries or the totals of another user.
C18_OwnerIsolatedImmutable ==
  [][ /\ reply'.op = "delete" =>
           IF \E l \in food_logs :
                l.id = reply'.log_id /\ l.user_id = reply'.user_id
           THEN /\ reply'.ok
                /\ food_logs' = {l \in food_logs : l.id # reply'.log_id}
           ELSE /\ ~reply'.ok
                /\ food_logs' = food_logs
      /\ \A l \in food_logs : \A k \in food_logs' : k.id = l.id => k = l
      /\ reply'.op \in {"log", "delete"} =>
           /\ OthersLogs(food_logs', reply'.user_id)
                = OthersLogs(food_logs, reply'.user_id)
           /\ \A u \in users, day \in Dates :
                u.id # reply'.user_id =>
                  SumCalories({l \in food_logs' : l.user_id = u.id /\ l.date = day})
                    = Totals(u.id, day) ]_vars

\* a user asked to delete an entry of another user: refused, entry kept
C18_Witness ==
  /\ reply.op = "delete"
  /\ ~reply.ok
  /\ \E l \in food_logs : l.id = reply.log_id /\ l.user_id # reply.user_id

\* a user deleted an own entry while another user's entry exists
C18_WitnessDeleted ==
  /\ reply.op = "delete"
  /\ reply.ok
  /\ \E l \in food_logs : l.user_id # reply.user_id /\ l.calories > 0

(* ------------------------------------------------------------------ *)
(* Two search requests served at the same time                         *)
(* ------------------------------------------------------------------ *)

\* the locals of the running request
Frame ==
  [pc |-> pc, rawq |-> rawq, query |-> query, products |-> products,
   unique_products |-> unique_products, response |-> response,
   ranked |-> ranked, calls |-> calls, received |-> received,
   mode |-> mode, prev |-> prev]

\* products as one list of the module, shared by the requests
SharedProducts == products

\* products is a local of api_food_search: each request has its own
ResumedProducts == suspended.products

\* the server runs the other request
Switch ==
  /\ suspended' = Frame
  /\ running' = 3 - running
  /\ pc' = suspended.pc
  /\ rawq' = suspended.rawq
  /\ query' = suspended.query
  /\ products' = ResumedProducts
  /\ unique_products' = suspended.unique_products
  /\ response' = suspended.response
  /\ ranked' = suspended.ranked
  /\ calls' = suspended.calls
  /\ received' = suspended.received
  /\ mode' = suspended.mode
  /\ prev' = suspended.prev
  /\ UNCHANGED <<credentials, store>>

\* an entry Ann logged
AnnSnack ==
  [id |-> 1, user_id |-> 1, date |-> Today, meal_type |-> "snack",
   calories |-> 100, serving_size |-> 1]

\* no provider credentials, two accounts and one diary entry stored
InitConcurrent ==
  /\ InitSearch
  /\ ~NutritionixConfiguredEither
  /\ EDAMAM_APP_ID = DemoId
  /\ EDAMAM_APP_KEY = DemoKey
  /\ users = {Ann, Bob}
  /\ food_logs = {AnnSnack}
  /\ pending = [c \in Clients |-> NoRegistration]
  /\ reply = NoReply

NextConcurrent ==
  \/ Request
  \/ LocalScan
  \/ Nutritionix
  \/ Edamam
  \/ OpenFoodFacts
  \/ Finalize
  \/ Switch

SpecConcurrent == InitConcurrent /\ [][NextConcurrent]_vars

\* the candidates of a request served alone, from its query and from what
\* the providers answered
SoloProducts(q, rec) ==
  LET ql == Lower(Strip(q))
      l  == LocalLoop(COMMON_FOODS, ql, <<>>)
      n  == IF rec["nutritionix"].kind = "ok"
            THEN NxLoop(rec["nutritionix"].items, ql, l) ELSE l
      h  == rec["edamam"].items
      e  == IF rec["edamam"].kind = "ok"
            THEN EdamamLoop(SubSeq(h, 1, IF Len(h) < EdamamHintLimit
                                         THEN Len(h) ELSE EdamamHintLimit),
                            ql, n)
            ELSE n
  IN  IF rec["off"].kind = "ok" THEN OffLoop(rec["off"].items, ql, e) ELSE e

\* the list a request served alone returns
SoloResponse(q, rec) ==
  IF TooShort(Strip(q)) THEN <<>>
  ELSE Truncate(DedupLoop(SortProducts(SoloProducts(q, rec)), {}, <<>>))

\* C17: for any interleaving of two api_food_search invocations each returns
\* exactly the list it would return if run alone with the same provider
\* responses, and the persisted accounts and food entries stay what they
\* were before the searches.
C17_ConcurrentSearchesIndependent ==
  /\ users = {Ann, Bob}
  /\ food_logs = {AnnSnack}
  /\ pc = "done" => response = SoloResponse(rawq, received)
  /\ suspended.pc = "done" =>
       suspended.response = SoloResponse(suspended.rawq, suspended.received)

\* a request finished with a non-empty list while the other one, for another
\* query, was suspended with candidates gathered and not yet ranked
C17_Witness ==
  /\ pc = "done"
  /\ response # <<>>
  /\ suspended.pc \in {"off", "finalize"}
  /\ suspended.products # <<>>
  /\ suspended.query # query
  /\ calls # <<>>

====
